---- MODULE Spec2Model ----
(***************************************************************************)
(* Model of SMCReader (assets/code/renderme_360_reader.py): a read-only    *)
(* accessor over a hierarchical HDF5 container (.smc).                     *)
(*                                                                         *)
(* Python strings that the code converts (str(), int(), '%02d') are        *)
(* modelled as sequences of characters, a character being a digit 0..9 or  *)
(* Minus, so that str(5) = "5" and "05" are different keys.  Python values *)
(* that are only stored and returned are modelled as records naming where  *)
(* they were read from.                                                    *)
(***************************************************************************)
EXTENDS Integers, Sequences, FiniteSets, TLC

\* ------------------------------------------------------------------ bounds
\* number of cameras stored under /Calibration
MaxCalCams == 2
\* number of candidate frame ids of the container
MaxFrames == 2
\* largest frame count of the /Keypoints3d section
MaxKp3dFrames == 2

\* ------------------------------------------------------- strings and ints
\* the character '-' (it sorts below the digits, as in ASCII)
Minus == 10

RECURSIVE Digits(_)
Digits(n) == IF n < 10 THEN <<n>> ELSE Digits(n \div 10) \o <<n % 10>>

\* str(n) of a Python int
Str(n) == IF n < 0 THEN <<Minus>> \o Digits(0 - n) ELSE Digits(n)

RECURSIVE DigitsVal(_)
DigitsVal(s) == IF s = <<>> THEN 0 ELSE 10 * DigitsVal(SubSeq(s, 1, Len(s) - 1)) + s[Len(s)]

\* int(s) of a Python string of a number
IntOf(s) == IF s # <<>> /\ s[1] = Minus THEN 0 - DigitsVal(Tail(s)) ELSE DigitsVal(s)

\* '%02d' % n
Pad2(n) == IF n >= 0 /\ n < 10 THEN <<0, n>> ELSE Str(n)

CharOrd(c) == IF c = Minus THEN 0 - 1 ELSE c

\* s < t in Python's (lexicographic) string order
RECURSIVE LexLess(_, _)
LexLess(s, t) ==
    IF t = <<>> THEN FALSE
    ELSE IF s = <<>> THEN TRUE
    ELSE IF CharOrd(s[1]) # CharOrd(t[1]) THEN CharOrd(s[1]) < CharOrd(t[1])
    ELSE LexLess(Tail(s), Tail(t))

RECURSIVE SetToSeq(_)
SetToSeq(S) == IF S = {} THEN <<>> ELSE LET x == CHOOSE y \in S : TRUE IN <<x>> \o SetToSeq(S \ {x})

\* the order in which h5py iterates the keys of a group (by name)
KeysInOrder(S) == SortSeq(SetToSeq(S), LexLess)

\* sorted(list of ints)
SortedInts(S) == SortSeq(SetToSeq(S), LAMBDA a, b : a < b)

\* a scalar argument: a Python int or a Python str of a number
PyInt(n) == [k |-> "int", n |-> n, s |-> <<>>]
PyStrOf(s) == [k |-> "str", n |-> 0, s |-> s]

\* str(x) of a scalar argument
ToStr(x) == IF x.k = "int" THEN Str(x.n) ELSE x.s

\* int(x) of a scalar argument
ToInt(x) == IF x.k = "int" THEN x.n ELSE IntOf(x.s)

\* --------------------------------------------------------------- container
\* the i-th camera of the rig: camera 5 ("05"), then the detection cameras 18, 19, ...
CamNum(i) == IF i = 1 THEN 5 ELSE 16 + i

\* camera ids stored under /Calibration and /Camera
RigCams == {Pad2(CamNum(i)) : i \in 1..MaxCalCams}

\* the i-th candidate frame id: 2, 10, 11, ... (non-contiguous, and "10" < "2" as strings)
FrameNum(i) == IF i = 1 THEN 2 ELSE 8 + i

FrameKeys == {Str(FrameNum(i)) : i \in 1..MaxFrames}

MatrixTypes == <<"D", "K", "RT">>

AllMatrixTypes == {MatrixTypes[i] : i \in 1..Len(MatrixTypes)}

ImageTypes == {"color", "mask"}

\* the literal range(18, 33) of get_Keypoints2d
Kp2dFirst == 18
Kp2dStop == 33

\* the attributes read by __init__
AttrValue(name) == [attr |-> name]

VARIABLES
    smc,                    \* the container: open flag and the stored tree
    calibration_dict,       \* self.__calibration_dict__: [set |-> FALSE] is None
    actor_info,             \* self.actor_info, a dict
    Camera_info,            \* self.Camera_info, a dict
    last,                   \* the last call: operation, arguments, outcome, container accesses
    firstCalib              \* the result of the first get_Calibration_all() that returned

vars == <<smc, calibration_dict, actor_info, Camera_info, last, firstCalib>>

NoneDict == [set |-> FALSE, d |-> <<>>]

\* the cameras of the rig that ran 2D landmark detection
DetectionCams == {c \in RigCams : IntOf(c) >= Kp2dFirst /\ IntOf(c) < Kp2dStop}

\* the container in which nothing is missing
FullContainer ==
    [isopen |-> TRUE,
     calib |-> [c \in RigCams |-> AllMatrixTypes],
     frames |-> FrameKeys,
     bad |-> {},
     kp2d |-> DetectionCams,
     kp3d_num_frame |-> MaxKp3dFrames]

\* containers as h5py.File(file_path, 'r') finds them: every rig camera has a
\* /Calibration and a /Camera subtree with color and mask; in one section of
\* the file something may be missing: matrices of calibration records, frames
\* (or their payloads are malformed), Keypoints2d subtrees, Keypoints3d frames.
Containers ==
    {[FullContainer EXCEPT !.calib = m] : m \in [RigCams -> {AllMatrixTypes, {"D", "K"}}]}
    \cup {[FullContainer EXCEPT !.frames = fr, !.bad = b] :
             fr \in SUBSET FrameKeys, b \in SUBSET FrameKeys}
    \cup {[FullContainer EXCEPT !.kp2d = k] : k \in SUBSET DetectionCams}
    \cup {[FullContainer EXCEPT !.kp3d_num_frame = n] : n \in 0..MaxKp3dFrames}

NoCall == [op |-> "none"]

\* the dicts __init__ builds from the attributes of the file
OpenTimeActorInfo == [k \in {"age", "color", "gender", "height", "weight"} |-> AttrValue(k)]
OpenTimeCameraInfo == [k \in {"num_device", "num_frame", "resolution"} |-> AttrValue(k)]

Init ==
    /\ smc \in {f \in Containers : f.bad \subseteq f.frames}
    /\ calibration_dict = NoneDict
    /\ actor_info = OpenTimeActorInfo
    /\ Camera_info = OpenTimeCameraInfo
    /\ last = NoCall
    /\ firstCalib = NoneDict

\* ------------------------------------------------------------- calibration
Ok(val, log) == [status |-> "ok", err |-> "", val |-> val, log |-> log]
Raise(err, log) == [status |-> "raise", err |-> err, val |-> <<>>, log |-> log]

CalibValue(ci, mt) == [sec |-> "Calibration", cam |-> ci, key |-> mt]

CalibAccess(ci, mt) == [sec |-> "Calibration", cam |-> ci, key |-> mt]

CalibKeysAccess == [sec |-> "Calibration", cam |-> <<>>, key |-> "keys()"]

\* the matrix types of camera ci that the inner loop stores before it stops
RECURSIVE StoredTypes(_, _)
StoredTypes(ci, i) ==
    IF i > Len(MatrixTypes) \/ MatrixTypes[i] \notin smc.calib[ci] THEN {}
    ELSE {MatrixTypes[i]} \cup StoredTypes(ci, i + 1)

\* the loop of get_Calibration_all over cams[i..], d being the dict so far
RECURSIVE CalibWalk(_, _, _, _)
CalibWalk(cams, i, d, log) ==
    IF i > Len(cams) THEN [dict |-> d, out |-> Ok(d, log)]
    ELSE LET ci == cams[i]
             got == StoredTypes(ci, 1)
             n == Cardinality(got)
             d2 == [c \in DOMAIN d \cup {ci} |->
                       IF c = ci THEN [mt \in got |-> CalibValue(ci, mt)] ELSE d[c]]
             reads == [j \in 1..(IF n < Len(MatrixTypes) THEN n + 1 ELSE n) |->
                          CalibAccess(ci, MatrixTypes[j])]
         IN IF got = AllMatrixTypes
            THEN CalibWalk(cams, i + 1, d2, log \o reads)
            ELSE [dict |-> d2, out |-> Raise("KeyError", log \o reads)]

\* get_Calibration_all: [dict |-> the cache afterwards, out |-> the outcome]
get_Calibration_all_walk ==
    IF ~smc.isopen
    THEN [dict |-> <<>>, out |-> Raise("ClosedFile", <<CalibKeysAccess>>)]
    ELSE CalibWalk(KeysInOrder(DOMAIN smc.calib), 1, <<>>, <<CalibKeysAccess>>)

\* get_Calibration_all without the test of line 65
get_Calibration_all_uncached == get_Calibration_all_walk

get_Calibration_all ==
    IF calibration_dict.set
    THEN [dict |-> calibration_dict.d, out |-> Ok(calibration_dict.d, <<>>)]
    ELSE get_Calibration_all_walk

CallCalibrationAll ==
    LET r == get_Calibration_all
    IN /\ calibration_dict' = [set |-> TRUE, d |-> r.dict]
       /\ last' = [op |-> "get_Calibration_all", prior |-> firstCalib.set,
                   isopen |-> smc.isopen, out |-> r.out]
       /\ firstCalib' = IF ~firstCalib.set /\ r.out.status = "ok"
                        THEN [set |-> TRUE, d |-> r.out.val] ELSE firstCalib
       /\ UNCHANGED <<smc, actor_info, Camera_info>>

get_Calibration(Camera_id) ==
    LET id == ToStr(Camera_id)
        keys == <<CalibKeysAccess>>
        got == StoredTypes(id, 1)
        n == Cardinality(got)
        reads == [j \in 1..(IF n < Len(MatrixTypes) THEN n + 1 ELSE n) |->
                     CalibAccess(id, MatrixTypes[j])]
    IN IF ~smc.isopen THEN Raise("ClosedFile", keys)
       ELSE IF id \notin DOMAIN smc.calib THEN Raise("Invalid Camera_id", keys)
       ELSE IF got # AllMatrixTypes THEN Raise("KeyError", keys \o reads)
       ELSE Ok([mt \in AllMatrixTypes |-> CalibValue(id, mt)], keys \o reads)

\* camera ids a caller passes: ints and strings of rig cameras, and of camera 7
CameraArgs ==
    UNION {{PyInt(CamNum(i)), PyStrOf(Str(CamNum(i))), PyStrOf(Pad2(CamNum(i)))} :
              i \in 1..MaxCalCams}
    \cup {PyInt(7), PyStrOf(Pad2(7))}

CallCalibration ==
    \E c \in CameraArgs :
        /\ last' = [op |-> "get_Calibration", Camera_id |-> c,
                    before |-> calibration_dict, out |-> get_Calibration(c)]
        /\ UNCHANGED <<smc, calibration_dict, actor_info, Camera_info, firstCalib>>

\* the caller closes the underlying h5py file (reader.smc.close())
CloseContainer ==
    /\ smc.isopen
    /\ smc' = [smc EXCEPT !.isopen = FALSE]
    /\ UNCHANGED <<calibration_dict, actor_info, Camera_info, last, firstCalib>>

NextCalib == CallCalibrationAll \/ CallCalibration

SpecCalib == Init /\ [][NextCalib]_vars

NextClose == CallCalibrationAll \/ CallCalibration \/ CloseContainer

SpecClose == Init /\ [][NextClose]_vars

\* ------------------------------------------------------------------ images
NoneValue == [t |-> "None", cam |-> <<>>, type |-> "", frame |-> <<>>]

\* the array cv2.imdecode makes of the payload of /Camera/cam/type/frame
Decoded(cam, type, frame) == [t |-> "bgr", cam |-> cam, type |-> type, frame |-> frame]

\* np.max(img, 2).astype(np.uint8) of a decoded array
ChannelMax(img) == [img EXCEPT !.t = "max"]

\* __read_color_from_bytes__: cv2.imdecode returns None for bytes that are no image
read_color_from_bytes(cam, type, frame) ==
    IF frame \in smc.bad THEN NoneValue ELSE Decoded(cam, type, frame)

ReadEv(frame) == [ev |-> "read", frame |-> frame]
DecodeEv(frame) == [ev |-> "decode", frame |-> frame]

\* a frame selector: None, a scalar, or a list of scalars
SelNone == [k |-> "none", n |-> 0, s |-> <<>>, l |-> <<>>]
SelScalar(x) == [k |-> x.k, n |-> x.n, s |-> x.s, l |-> <<>>]
SelList(l) == [k |-> "list", n |-> 0, s |-> <<>>, l |-> l]

\* np.stack(rs, axis=0): needs one array at least, and arrays of one shape
np_stack(rs, log) ==
    IF rs = <<>> THEN Raise("ValueError", log)
    ELSE IF \E i, j \in 1..Len(rs) : (rs[i].t = "None") # (rs[j].t = "None")
    THEN Raise("ValueError", log)
    ELSE Ok([t |-> "stack", items |-> rs], log)

\* the branch of get_img for a scalar Frame_id (lines 118-126)
get_img_single(id, Image_type, x) ==
    LET f == ToStr(x)
        img == read_color_from_bytes(id, Image_type, f)
        log == <<ReadEv(f), DecodeEv(f)>>
    IN IF id \notin RigCams THEN Raise("Invalid Camera_id", <<>>)
       ELSE IF Image_type \notin ImageTypes THEN Raise("Invalid Image_type", <<>>)
       ELSE IF f \notin smc.frames THEN Raise("Invalid Frame_id", <<>>)
       ELSE IF Image_type = "mask"
            THEN (IF img.t = "None" THEN Raise("AxisError", log) ELSE Ok(ChannelMax(img), log))
       ELSE Ok(img, log)

\* the loop of lines 132-135 over list[i..], rs being the frames so far
RECURSIVE get_img_loop(_, _, _, _, _, _)
get_img_loop(id, Image_type, list, i, rs, log) ==
    IF i > Len(list) THEN np_stack(rs, log)
    ELSE LET r == get_img_single(id, Image_type, list[i])
         IN IF r.status = "raise" THEN Raise(r.err, log \o r.log)
            ELSE get_img_loop(id, Image_type, list, i + 1, Append(rs, r.val), log \o r.log)

\* Frame_id_list of line 129 without sorted(): the keys as h5py iterates them
AllFramesUnsorted ==
    LET keys == KeysInOrder(smc.frames) IN [i \in 1..Len(keys) |-> PyStrOf(keys[i])]

\* Frame_id_list of line 129
AllFramesSorted ==
    LET ids == SortedInts({IntOf(k) : k \in smc.frames}) IN [i \in 1..Len(ids) |-> PyInt(ids[i])]

get_img(Camera_id, Image_type, Frame_id) ==
    LET id == ToStr(Camera_id)
    IN IF id \notin RigCams THEN Raise("Invalid Camera_id", <<>>)
       ELSE IF Image_type \notin ImageTypes THEN Raise("Invalid Image_type", <<>>)
       ELSE IF Frame_id.k \in {"int", "str"} THEN get_img_single(id, Image_type, Frame_id)
       ELSE IF Frame_id.k = "none"
            THEN get_img_loop(id, Image_type, AllFramesSorted, 1, <<>>, <<>>)
       ELSE get_img_loop(id, Image_type, Frame_id.l, 1, <<>>, <<>>)

\* frame numbers a caller passes: the candidate frames, and frame 3, which is never stored
FrameArgNums == {FrameNum(i) : i \in 1..MaxFrames} \cup {3}

ScalarFrameArgs == {PyInt(n) : n \in FrameArgNums} \cup {PyStrOf(k) : k \in FrameKeys}

ListFrameArgs ==
    {<<PyInt(a)>> : a \in FrameArgNums} \cup {<<PyInt(a), PyInt(b)>> : a, b \in FrameArgNums}

FrameArgs == {SelNone} \cup {SelScalar(x) : x \in ScalarFrameArgs} \cup {SelList(l) : l \in ListFrameArgs}

ImgCameraArgs == {PyStrOf(Pad2(CamNum(1))), PyInt(CamNum(MaxCalCams)), PyStrOf(Pad2(7))}

CallImg ==
    \E c \in ImgCameraArgs, t \in ImageTypes \cup {"depth"}, f \in FrameArgs :
        /\ last' = [op |-> "get_img", Camera_id |-> c, Image_type |-> t, Frame_id |-> f,
                    out |-> get_img(c, t, f)]
        /\ UNCHANGED <<smc, calibration_dict, actor_info, Camera_info, firstCalib>>

NextImg == CallImg

SpecImg == Init /\ [][NextImg]_vars

\* --------------------------------------------------------------- keypoints
Kp2dValue(cam, frame) == [t |-> "lmk2d", cam |-> cam, type |-> "", frame |-> frame]

Kp3dValue(frame) == [t |-> "lmk3d", cam |-> <<>>, type |-> "", frame |-> frame]

\* an h5py group handed out as it is: its members in the order h5py iterates them
Group(members) == [t |-> "group", items |-> members]

\* the list of line 166 with range(18, 34)
Kp2dRangeOneMore == {Pad2(i) : i \in Kp2dFirst..Kp2dStop}

\* [f'%02d' % i for i in range(18, 33)]
Kp2dRange == {Pad2(i) : i \in Kp2dFirst..(Kp2dStop - 1)}

\* the branch of get_Keypoints2d for a scalar Frame_id (lines 171-174)
get_Keypoints2d_single(id, x) ==
    LET f == ToStr(x)
    IN IF f \in smc.frames THEN Ok(Kp2dValue(id, f), <<ReadEv(f)>>)
       ELSE Raise("KeyError", <<ReadEv(f)>>)

\* the loop of lines 180-183
RECURSIVE get_Keypoints2d_loop(_, _, _, _, _)
get_Keypoints2d_loop(id, list, i, rs, log) ==
    IF i > Len(list) THEN np_stack(rs, log)
    ELSE LET r == get_Keypoints2d_single(id, list[i])
         IN IF r.status = "raise" THEN Raise(r.err, log \o r.log)
            ELSE get_Keypoints2d_loop(id, list, i + 1, Append(rs, r.val), log \o r.log)

get_Keypoints2d(Camera_id, Frame_id) ==
    LET id == ToStr(Camera_id)
    IN IF id \notin Kp2dRange THEN Raise("Invalid Camera_id", <<>>)
       ELSE IF id \notin smc.kp2d THEN Ok(NoneValue, <<>>)
       ELSE IF Frame_id.k \in {"int", "str"} THEN get_Keypoints2d_single(id, Frame_id)
       ELSE IF Frame_id.k = "none"
            THEN LET keys == KeysInOrder(smc.frames)
                 IN Ok(Group([i \in 1..Len(keys) |-> Kp2dValue(id, keys[i])]), <<>>)
       ELSE get_Keypoints2d_loop(id, Frame_id.l, 1, <<>>, <<>>)

\* camera ids a caller passes to get_Keypoints2d: the rig cameras, camera 17
\* and camera 33 (next to the range), and camera 32 (in the range, not in the rig)
Kp2dCameraArgs ==
    {PyInt(CamNum(i)) : i \in 1..MaxCalCams} \cup {PyStrOf(c) : c \in RigCams}
    \cup {PyInt(Kp2dFirst - 1), PyInt(Kp2dStop), PyInt(Kp2dStop - 1)}

CallKeypoints2d ==
    \E c \in Kp2dCameraArgs, f \in FrameArgs :
        /\ last' = [op |-> "get_Keypoints2d", Camera_id |-> c, Frame_id |-> f,
                    out |-> get_Keypoints2d(c, f)]
        /\ UNCHANGED <<smc, calibration_dict, actor_info, Camera_info, firstCalib>>

\* the keys of /Keypoints3d: "0" .. "num_frame-1"
Kp3dKeys == {Str(i) : i \in 0..(smc.kp3d_num_frame - 1)}

\* lines 196-200 with Frame_id <= num_frame in the assertion
get_Keypoints3d_single_le(x) ==
    LET n == ToInt(x)
    IN IF ~(n >= 0 /\ n <= smc.kp3d_num_frame) THEN Raise("Invalid frame_index", <<>>)
       ELSE IF Str(n) \in {Str(i) : i \in 0..(smc.kp3d_num_frame - 1)}
            THEN Ok([t |-> "lmk3d", cam |-> <<>>, type |-> "", frame |-> Str(n)],
                    <<ReadEv(Str(n))>>)
       ELSE Raise("KeyError", <<ReadEv(Str(n))>>)

\* the branch of get_Keypoints3d for a scalar Frame_id (lines 196-200)
get_Keypoints3d_single(x) ==
    LET n == ToInt(x)
    IN IF ~(n >= 0 /\ n < smc.kp3d_num_frame) THEN Raise("Invalid frame_index", <<>>)
       ELSE IF Str(n) \in Kp3dKeys THEN Ok(Kp3dValue(Str(n)), <<ReadEv(Str(n))>>)
       ELSE Raise("KeyError", <<ReadEv(Str(n))>>)

\* the loop of lines 206-209
RECURSIVE get_Keypoints3d_loop(_, _, _, _)
get_Keypoints3d_loop(list, i, rs, log) ==
    IF i > Len(list) THEN np_stack(rs, log)
    ELSE LET r == get_Keypoints3d_single(list[i])
         IN IF r.status = "raise" THEN Raise(r.err, log \o r.log)
            ELSE get_Keypoints3d_loop(list, i + 1, Append(rs, r.val), log \o r.log)

get_Keypoints3d(Frame_id) ==
    IF Frame_id.k \in {"int", "str"} THEN get_Keypoints3d_single(Frame_id)
    ELSE IF Frame_id.k = "none"
         THEN LET keys == KeysInOrder(Kp3dKeys)
              IN Ok(Group([i \in 1..Len(keys) |-> Kp3dValue(keys[i])]), <<>>)
    ELSE get_Keypoints3d_loop(Frame_id.l, 1, <<>>, <<>>)

\* frame indices a caller passes to get_Keypoints3d: -1 .. the largest frame count
Kp3dArgNums == (0 - 1)..MaxKp3dFrames

Kp3dArgs ==
    {SelNone}
    \cup {SelScalar(PyInt(n)) : n \in Kp3dArgNums}
    \cup {SelScalar(PyStrOf(Str(n))) : n \in Kp3dArgNums}
    \cup {SelList(<<PyInt(a)>>) : a \in Kp3dArgNums}
    \cup {SelList(<<PyInt(a), PyInt(b)>>) : a, b \in Kp3dArgNums}

CallKeypoints3d ==
    \E f \in Kp3dArgs :
        /\ last' = [op |-> "get_Keypoints3d", Frame_id |-> f, out |-> get_Keypoints3d(f)]
        /\ UNCHANGED <<smc, calibration_dict, actor_info, Camera_info, firstCalib>>

NextKeypoints == CallKeypoints2d \/ CallKeypoints3d

SpecKeypoints == Init /\ [][NextKeypoints]_vars

\* -------------------------------------------------------------------- info
get_actor_info == actor_info

get_Camera_info == Camera_info

CallActorInfo ==
    /\ last' = [op |-> "get_actor_info", out |-> Ok(get_actor_info, <<>>)]
    /\ UNCHANGED <<smc, calibration_dict, actor_info, Camera_info, firstCalib>>

CallCameraInfo ==
    /\ last' = [op |-> "get_Camera_info", out |-> Ok(get_Camera_info, <<>>)]
    /\ UNCHANGED <<smc, calibration_dict, actor_info, Camera_info, firstCalib>>

\* d[key] = value by the caller, d being what the accessor has just returned
DictSet(d, key, value) == [k \in DOMAIN d \cup {key} |-> IF k = key THEN value ELSE d[k]]

\* del d[key] by the caller
DictDel(d, key) == [k \in DOMAIN d \ {key} |-> d[k]]

CallerValue == [attr |-> "set by the caller"]

\* the entries the caller writes to
CallerActorKeys == {"age"}
CallerCameraKeys == {"num_frame"}

\* the caller changes or deletes an entry of the mapping get_actor_info() gave it
CallerChangesActorInfo ==
    /\ last.op = "get_actor_info"
    /\ \E key \in CallerActorKeys :
          \/ actor_info' = DictSet(actor_info, key, CallerValue)
          \/ key \in DOMAIN actor_info /\ actor_info' = DictDel(actor_info, key)
    /\ UNCHANGED <<smc, calibration_dict, Camera_info, last, firstCalib>>

\* the caller changes or deletes an entry of the mapping get_Camera_info() gave it
CallerChangesCameraInfo ==
    /\ last.op = "get_Camera_info"
    /\ \E key \in CallerCameraKeys :
          \/ Camera_info' = DictSet(Camera_info, key, CallerValue)
          \/ key \in DOMAIN Camera_info /\ Camera_info' = DictDel(Camera_info, key)
    /\ UNCHANGED <<smc, calibration_dict, actor_info, last, firstCalib>>

NextInfo ==
    CallActorInfo \/ CallCameraInfo \/ CallerChangesActorInfo \/ CallerChangesCameraInfo

SpecInfo == Init /\ [][NextInfo]_vars

\* Every operation of the Reader, on a container that stays open.  The
\* accessors of one section of the file read and write no Reader state of
\* another: only get_Calibration_all writes self.__calibration_dict__, only
\* the info accessors hand out self.actor_info and self.Camera_info.  The
\* properties are therefore checked under the specification of their section
\* (SpecCalib, SpecClose, SpecImg, SpecKeypoints, SpecInfo), each a part of
\* Next from the same Init; SpecClose adds the caller closing the file.
Next ==
    \/ CallCalibrationAll
    \/ CallCalibration
    \/ CallImg
    \/ CallKeypoints2d
    \/ CallKeypoints3d
    \/ CallActorInfo
    \/ CallCameraInfo
    \/ CallerChangesActorInfo
    \/ CallerChangesCameraInfo

Spec == Init /\ [][Next]_vars

\* ------------------------------------------------------ calibration claims
\* C1: once get_Calibration_all() has returned, every later call returns a
\* result equal to the first one and accesses the container not at all, so it
\* succeeds also when the container has been closed in between.
C1_LaterCallsHitTheCache ==
    (last.op = "get_Calibration_all" /\ last.prior) =>
        /\ last.out.status = "ok"
        /\ last.out.val = firstCalib.d
        /\ last.out.log = <<>>

\* a later call on a closed container that returned the mapping of all cameras
C1_Witness ==
    /\ last.op = "get_Calibration_all"
    /\ last.prior
    /\ ~last.isopen
    /\ last.out.status = "ok"
    /\ DOMAIN last.out.val = RigCams

\* the mapping has an entry with D, K and RT for every camera under /Calibration
CompleteMapping(d) ==
    /\ DOMAIN d = DOMAIN smc.calib
    /\ \A c \in DOMAIN d : DOMAIN d[c] = AllMatrixTypes

\* C2: the calibration cache is Empty or holds the complete mapping, and no
\* get_Calibration_all() call returns a partial mapping.
C2_CacheAllOrNothing ==
    /\ calibration_dict.set => CompleteMapping(calibration_dict.d)
    /\ (last.op = "get_Calibration_all" /\ last.out.status = "ok") =>
           CompleteMapping(last.out.val)

\* C3: get_Calibration(C) addresses the camera whose id is the two-digit
\* zero-padded form of C, fails with the invalid-camera error exactly when that
\* id is not under /Calibration, and leaves the get-all cache alone.
C3_CanonicalCameraId ==
    last.op = "get_Calibration" =>
        LET canon == Pad2(ToInt(last.Camera_id))
        IN /\ (last.out.err = "Invalid Camera_id") <=> (canon \notin DOMAIN smc.calib)
           /\ last.out.status = "ok" =>
                  last.out.val = [mt \in AllMatrixTypes |-> CalibValue(canon, mt)]
           /\ calibration_dict = last.before

\* ------------------------------------------------------------ image claims
\* the call was get_img on a camera and an image type that are stored
ImgCallOnStored ==
    /\ last.op = "get_img"
    /\ ToStr(last.Camera_id) \in RigCams
    /\ last.Image_type \in ImageTypes

\* the place of the stored frame key k in ascending numeric order
NumericRank(k) == 1 + Cardinality({j \in smc.frames : IntOf(j) < IntOf(k)})

BatchOf(sel) == IF sel.k = "none" THEN AllFramesSorted ELSE sel.l

\* batch[i] is the first frame of the batch whose payload does not decode, and
\* every frame before it is stored
FirstUndecodable(batch, i) ==
    /\ i \in 1..Len(batch)
    /\ ToStr(batch[i]) \in smc.bad
    /\ \A j \in 1..(i - 1) : ToStr(batch[j]) \in smc.frames \ smc.bad

\* C5: when the payload of a requested frame does not decode, get_img fails:
\* a single-frame call returns nothing, a batch call stops at that frame,
\* reads and decodes no later frame and returns no batch.
C5_DecodeFailureAborts ==
    ImgCallOnStored =>
        /\ (last.Frame_id.k \in {"int", "str"} /\ ToStr(last.Frame_id) \in smc.bad) =>
               last.out.status = "raise"
        /\ last.Frame_id.k \in {"none", "list"} =>
               \A i \in 1..Len(BatchOf(last.Frame_id)) :
                   FirstUndecodable(BatchOf(last.Frame_id), i) =>
                       /\ last.out.status = "raise"
                       /\ Len(last.out.log) <= 2 * i

\* C6: every check of the selectors of a get_img call is made before any
\* frame payload is read: a call that fails a selector check has read and
\* decoded nothing.
C6_ValidationBeforeReads ==
    (last.op = "get_img" /\ last.out.status = "raise"
        /\ last.out.err \in {"Invalid Camera_id", "Invalid Image_type", "Invalid Frame_id"})
    => last.out.log = <<>>

\* --------------------------------------------------------- keypoint claims
\* the camera id of the call is one of "18" .. "32"
InDetectionRange(c) == ToInt(c) >= 18 /\ ToInt(c) <= 32 /\ Len(ToStr(c)) = 2

\* C7: get_Keypoints2d(C, selector), whatever the selector: fails with the
\* invalid-camera error when C is outside "18".."32"; returns the "missing"
\* result, without raising and without reading a frame, when C is in the range
\* and has no subtree under /Keypoints2d.
C7_RangeThenMissing ==
    last.op = "get_Keypoints2d" =>
        /\ ~InDetectionRange(last.Camera_id) =>
               /\ last.out.status = "raise"
               /\ last.out.err = "Invalid Camera_id"
               /\ last.out.log = <<>>
        /\ (InDetectionRange(last.Camera_id) /\ ToStr(last.Camera_id) \notin smc.kp2d) =>
               /\ last.out.status = "ok"
               /\ last.out.val = NoneValue
               /\ last.out.log = <<>>

\* a call with an explicit list on a camera of the range without a subtree
C7_Witness ==
    /\ last.op = "get_Keypoints2d"
    /\ InDetectionRange(last.Camera_id)
    /\ ToStr(last.Camera_id) \notin smc.kp2d
    /\ last.Frame_id.k = "list"
    /\ last.out.status = "ok"
    /\ last.out.val = NoneValue

\* C8: get_Keypoints2d(C, None), C having a subtree (with a frame in it),
\* returns the records of all stored frames in ascending numeric frame order:
\* the records get_Keypoints2d(C, L) stacks for L the list of all stored frame
\* ids in ascending numeric order.
C8_AllKeypointsInNumericOrder ==
    (last.op = "get_Keypoints2d" /\ last.Frame_id.k = "none"
        /\ ToStr(last.Camera_id) \in smc.kp2d /\ smc.frames # {}) =>
        LET stacked == get_Keypoints2d(last.Camera_id, SelList(AllFramesSorted))
        IN /\ last.out.status = "ok"
           /\ stacked.status = "ok"
           /\ last.out.val.items = stacked.val.items

\* the index is below 0 or not below the frame count of /Keypoints3d
OutOfBounds(x) == ToInt(x) < 0 \/ ToInt(x) >= smc.kp3d_num_frame

\* what C10 says of a single index
C10_SingleIndex ==
    (last.op = "get_Keypoints3d" /\ last.Frame_id.k \in {"int", "str"}) =>
        /\ (last.out.err = "Invalid frame_index") <=> OutOfBounds(last.Frame_id)
        /\ ~OutOfBounds(last.Frame_id) => last.out.status = "ok"

\* C10 as stated: a single index fails with the out-of-range error exactly when
\* it is < 0 or >= the frame count; a call with an explicit list (of indices
\* >= 0) that contains an index >= the frame count is never rejected with the
\* out-of-range error.
C10_ListNeverRejected ==
    /\ C10_SingleIndex
    /\ (last.op = "get_Keypoints3d" /\ last.Frame_id.k = "list"
           /\ (\A i \in 1..Len(last.Frame_id.l) : ToInt(last.Frame_id.l[i]) >= 0)
           /\ (\E i \in 1..Len(last.Frame_id.l) :
                   ToInt(last.Frame_id.l[i]) >= smc.kp3d_num_frame))
       => last.out.err # "Invalid frame_index"

\* C10 amended: a single index as stated; every element of an explicit list
\* goes through the check of a single index, so the call fails with the
\* out-of-range error at the first element that is out of bounds, having read
\* the elements before it and no other; the omitted selector is not checked.
C10_ListCheckedPerElement ==
    /\ C10_SingleIndex
    /\ (last.op = "get_Keypoints3d" /\ last.Frame_id.k = "list") =>
           LET l == last.Frame_id.l
               oob == {i \in 1..Len(l) : OutOfBounds(l[i])}
           IN /\ (last.out.err = "Invalid frame_index") <=> (oob # {})
              /\ \A i \in oob : (\A j \in oob : i <= j) => Len(last.out.log) = i - 1
    /\ (last.op = "get_Keypoints3d" /\ last.Frame_id.k = "none") => last.out.status = "ok"

\* a list whose second element is the frame count, rejected after one read
C10_Witness ==
    /\ last.op = "get_Keypoints3d"
    /\ last.Frame_id.k = "list"
    /\ Len(last.Frame_id.l) = 2
    /\ ToInt(last.Frame_id.l[1]) = smc.kp3d_num_frame - 1
    /\ ToInt(last.Frame_id.l[2]) = smc.kp3d_num_frame
    /\ smc.kp3d_num_frame > 0
    /\ last.out.err = "Invalid frame_index"
    /\ Len(last.out.log) = 1

\* ------------------------------------------------------------- info claims
\* C9: get_actor_info() and get_Camera_info() return the mappings read at open
\* time, whatever a caller has done to a mapping returned earlier.
C9_InfoAsReadAtOpen ==
    /\ last.op = "get_actor_info" => last.out.val = OpenTimeActorInfo
    /\ last.op = "get_Camera_info" => last.out.val = OpenTimeCameraInfo

====
